---- MODULE Spec2Model ----
(***************************************************************************)
(* Rule-based air-conditioner controller (LAB_TEST_Q2.py).                 *)
(*                                                                         *)
(* The model covers the rule engine: evaluate_condition, run_rule_engine,  *)
(* the DEFAULT_RULES table and the facts dictionary the form builds.       *)
(*                                                                         *)
(* Python values are tagged records:                                       *)
(*   PyInt(n)    an int                                                    *)
(*   PyFloat(h)  a float, stored in halves (h = 2 * value), which covers   *)
(*               the 0.5 step of the temperature widget exactly            *)
(*   PyBool(b)   a bool (a subclass of int in Python)                      *)
(*   PyStr(s)    a str, s names the literal; Text(s) is its characters     *)
(*   PyNone      None                                                      *)
(*   PyList(e)   a list with elements e                                    *)
(* A dict is a function from key strings to values.  A call either returns *)
(* a value or raises: Return(v) / Raise(exc).                              *)
(***************************************************************************)
EXTENDS Integers, Sequences, FiniteSets, TLC

VARIABLES rules, facts, cond, pc, result

vars == <<rules, facts, cond, pc, result>>

----------------------------------------------------------------------------
(* Python values *)

PyInt(n) == [t |-> "int", n |-> n]

PyFloat(h) == [t |-> "float", h |-> h]

PyBool(b) == [t |-> "bool", b |-> b]

PyStr(s) == [t |-> "str", s |-> s]

PyNone == [t |-> "null"]

PyList(e) == [t |-> "list", e |-> e]

Return(v) == [raised |-> FALSE, value |-> v]

Raise(exc) == [raised |-> TRUE, exc |-> exc]

(* dict.get(key, default) *)
Get(d, key, default) == IF key \in DOMAIN d THEN d[key] ELSE default

----------------------------------------------------------------------------
(* Strings: the characters of every str literal the model uses, as code    *)
(* points, so that str(), upper() and the lexicographic order are computed *)

Text(s) ==
  CASE s = "OCCUPIED" -> <<79, 67, 67, 85, 80, 73, 69, 68>>
  [] s = "EMPTY" -> <<69, 77, 80, 84, 89>>
  [] s = "MORNING" -> <<77, 79, 82, 78, 73, 78, 71>>
  [] s = "AFTERNOON" -> <<65, 70, 84, 69, 82, 78, 79, 79, 78>>
  [] s = "EVENING" -> <<69, 86, 69, 78, 73, 78, 71>>
  [] s = "NIGHT" -> <<78, 73, 71, 72, 84>>
  [] s = "occupied" -> <<111, 99, 99, 117, 112, 105, 101, 100>>
  [] s = "9" -> <<57>>
  [] s = "30" -> <<51, 48>>
  [] s = "30.0" -> <<51, 48, 46, 48>>
  [] s = "true" -> <<116, 114, 117, 101>>
  [] s = "none" -> <<110, 111, 110, 101>>
  [] s = "high" -> <<104, 105, 103, 104>>
  [] s = "" -> <<>>

RECURSIVE Digits(_)
(* decimal digits of a natural number *)
Digits(n) == IF n < 10 THEN <<48 + n>> ELSE Digits(n \div 10) \o <<48 + (n % 10)>>

(* str(int) *)
IntStr(n) == IF n < 0 THEN <<45>> \o Digits(0 - n) ELSE Digits(n)

(* str(float) of a non-negative multiple of 0.5: "30.0", "22.5" *)
FloatStr(h) == Digits(h \div 2) \o <<46>> \o (IF h % 2 = 0 THEN <<48>> ELSE <<53>>)

(* str(x): the textual form of a value; of lists only [] occurs as operand *)
str(v) ==
  CASE v.t = "str" -> Text(v.s)
  [] v.t = "int" -> IntStr(v.n)
  [] v.t = "float" -> FloatStr(v.h)
  [] v.t = "bool" -> IF v.b THEN <<84, 114, 117, 101>> ELSE <<70, 97, 108, 115, 101>>
  [] v.t = "null" -> <<78, 111, 110, 101>>
  [] v.t = "list" /\ v.e = <<>> -> <<91, 93>>

(* upper() left out: the strings are compared as they are *)
asWritten(s) == s

(* str.upper() *)
upper(s) == [i \in 1..Len(s) |-> IF s[i] \in 97..122 THEN s[i] - 32 ELSE s[i]]

RECURSIVE StrLess(_, _)
(* a < b on strings: lexicographic by code point *)
StrLess(a, b) ==
  IF b = <<>> THEN FALSE
  ELSE IF a = <<>> THEN TRUE
  ELSE IF a[1] # b[1] THEN a[1] < b[1]
  ELSE StrLess(Tail(a), Tail(b))

----------------------------------------------------------------------------
(* evaluate_condition *)

(* isinstance(x, (int, float)): bool is a subclass of int *)
isNumber(v) == v.t \in {"int", "float", "bool"}

(* float(x) of a number, in halves *)
float(v) ==
  CASE v.t = "int" -> 2 * v.n
  [] v.t = "float" -> v.h
  [] v.t = "bool" -> IF v.b THEN 2 ELSE 0

(* len(x) is defined for lists and strs only *)
hasLen(v) == v.t \in {"list", "str"}

len(v) == IF v.t = "list" THEN Len(v.e) ELSE Len(Text(v.s))

(* hash(x) raises TypeError for a list *)
hashable(v) == v.t # "list"

(* field in facts *)
inFacts(field, f) == field.t = "str" /\ field.s \in DOMAIN f

(* operator == "<sym>" *)
isOp(operator, sym) == operator.t = "str" /\ operator.s = sym

(* lines 175-182 with >= and <= taken as > and < *)
compareNumbersStrict(operator, actual_val, rule_val) ==
  IF isOp(operator, "==") THEN actual_val = rule_val
  ELSE IF isOp(operator, "!=") THEN actual_val # rule_val
  ELSE IF isOp(operator, ">=") THEN actual_val > rule_val
  ELSE IF isOp(operator, "<=") THEN actual_val < rule_val
  ELSE IF isOp(operator, ">") THEN actual_val > rule_val
  ELSE IF isOp(operator, "<") THEN actual_val < rule_val
  ELSE FALSE

(* lines 175-182 on two floats *)
compareNumbers(operator, actual_val, rule_val) ==
  IF isOp(operator, "==") THEN actual_val = rule_val
  ELSE IF isOp(operator, "!=") THEN actual_val # rule_val
  ELSE IF isOp(operator, ">=") THEN actual_val >= rule_val
  ELSE IF isOp(operator, "<=") THEN actual_val <= rule_val
  ELSE IF isOp(operator, ">") THEN actual_val > rule_val
  ELSE IF isOp(operator, "<") THEN actual_val < rule_val
  ELSE FALSE

(* lines 175-182 on two strs *)
compareStrings(operator, actual_val, rule_val) ==
  IF isOp(operator, "==") THEN actual_val = rule_val
  ELSE IF isOp(operator, "!=") THEN actual_val # rule_val
  ELSE IF isOp(operator, ">=") THEN ~StrLess(actual_val, rule_val)
  ELSE IF isOp(operator, "<=") THEN ~StrLess(rule_val, actual_val)
  ELSE IF isOp(operator, ">") THEN StrLess(rule_val, actual_val)
  ELSE IF isOp(operator, "<") THEN StrLess(actual_val, rule_val)
  ELSE FALSE

(* lines 165-182: field is a key of facts *)
compare(operator, actual, value) ==
  IF isNumber(value) /\ isNumber(actual)
  THEN compareNumbers(operator, float(actual), float(value))
  ELSE compareStrings(operator, upper(str(actual)), upper(str(value)))

evaluate_condition(c, f) ==
  IF ~hasLen(c) THEN Raise("TypeError")
  ELSE IF len(c) # 3 THEN Return(FALSE)
  ELSE IF ~hashable(c.e[1]) THEN Raise("TypeError")
  ELSE IF ~inFacts(c.e[1], f) THEN Return(FALSE)
  ELSE Return(compare(c.e[2], f[c.e[1].s], c.e[3]))

----------------------------------------------------------------------------
(* run_rule_engine *)

(* key=lambda r: r.get("priority", 0) *)
priority(r) == Get(r, "priority", PyInt(0))

(* a < b is defined on two numbers and on two strs *)
comparable(a, b) == (isNumber(a) /\ isNumber(b)) \/ (a.t = "str" /\ b.t = "str")

less(a, b) == IF isNumber(a) THEN float(a) < float(b) ELSE StrLess(Text(a.s), Text(b.s))

RECURSIVE insertAscending(_, _)
(* the sort without reverse=True: ascending, stable *)
insertAscending(s, r) ==
  IF s = <<>> THEN <<r>>
  ELSE IF less(priority(r), priority(Head(s))) THEN <<r>> \o s
  ELSE <<Head(s)>> \o insertAscending(Tail(s), r)

RECURSIVE insertUnstable(_, _)
(* a descending sort that puts r in front of the rules with an equal key *)
insertUnstable(s, r) ==
  IF s = <<>> THEN <<r>>
  ELSE IF ~less(priority(r), priority(Head(s))) THEN <<r>> \o s
  ELSE <<Head(s)>> \o insertUnstable(Tail(s), r)

RECURSIVE insert(_, _)
(* place r behind every rule whose key is not below r's: descending, stable *)
insert(s, r) ==
  IF s = <<>> THEN <<r>>
  ELSE IF less(priority(Head(s)), priority(r)) THEN <<r>> \o s
  ELSE <<Head(s)>> \o insert(Tail(s), r)

RECURSIVE sortDesc(_)
sortDesc(rs) == IF rs = <<>> THEN <<>> ELSE insert(sortDesc(SubSeq(rs, 1, Len(rs) - 1)), rs[Len(rs)])

(* sorted(rules, key=..., reverse=True): a list of two or more rules is    *)
(* ordered by comparing keys, which raises when two keys are not comparable *)
sorted(rs) ==
  IF \E i, j \in 1..Len(rs) : i # j /\ ~comparable(priority(rs[i]), priority(rs[j]))
  THEN Raise("TypeError")
  ELSE Return(sortDesc(rs))

RECURSIVE anyFrom(_, _)
(* any(...) in place of all(...): one true condition is enough *)
anyFrom(cs, f) ==
  IF cs = <<>> THEN Return(FALSE)
  ELSE LET r == evaluate_condition(Head(cs), f)
       IN IF r.raised THEN r
          ELSE IF r.value THEN Return(TRUE)
          ELSE anyFrom(Tail(cs), f)

RECURSIVE allFrom(_, _)
(* all(evaluate_condition(c, facts) for c in cs): stops at the first false *)
allFrom(cs, f) ==
  IF cs = <<>> THEN Return(TRUE)
  ELSE LET r == evaluate_condition(Head(cs), f)
       IN IF r.raised THEN r
          ELSE IF ~r.value THEN Return(FALSE)
          ELSE allFrom(Tail(cs), f)

(* iterating a list yields its elements, a str its 1-character strs (none  *)
(* of which has length 3); any other value here is not iterable             *)
all(conditions, f) ==
  CASE conditions.t = "list" -> allFrom(conditions.e, f)
  [] conditions.t = "str" -> Return(Text(conditions.s) = <<>>)
  [] OTHER -> Raise("TypeError")

Decision(rule) ==
  [rule_name |-> Get(rule, "name", PyStr("Unnamed Rule")),
   action |-> Get(rule, "action", <<>>),
   priority |-> Get(rule, "priority", PyInt(0))]

(* the loop with "return None" inside its body: only the first rule is tried *)
firstOnly(sorted_rules, f) ==
  IF sorted_rules = <<>> THEN Return(PyNone)
  ELSE LET rule == Head(sorted_rules)
           m == all(Get(rule, "conditions", PyList(<<>>)), f)
       IN IF m.raised THEN m
          ELSE IF m.value THEN Return(Decision(rule))
          ELSE Return(PyNone)

RECURSIVE firstMatch(_, _)
(* lines 189-197 *)
firstMatch(sorted_rules, f) ==
  IF sorted_rules = <<>> THEN Return(PyNone)
  ELSE LET rule == Head(sorted_rules)
           m == all(Get(rule, "conditions", PyList(<<>>)), f)
       IN IF m.raised THEN m
          ELSE IF m.value THEN Return(Decision(rule))
          ELSE firstMatch(Tail(sorted_rules), f)

run_rule_engine(rs, f) ==
  LET sorted_rules == sorted(rs)
  IN IF sorted_rules.raised THEN sorted_rules ELSE firstMatch(sorted_rules.value, f)

----------------------------------------------------------------------------
(* Inputs of the engine: rule lists in the shape of section 3 *)

MaxRules == 3

MaxPriority == 0

Hot == PyList(<<PyStr("temperature"), PyStr(">="), PyInt(25)>>)

Dry == PyList(<<PyStr("humidity"), PyStr("<"), PyInt(70)>>)

Cool == [mode |-> PyStr("COOL"), setpoint |-> PyInt(24)]

Guarded == "conditions" :> PyList(<<Hot, Dry>>)

(* rule "A" carries an action and either no "conditions" key or two        *)
(* conditions; rule "B" relies on the default action and has an empty      *)
(* condition list or the same two conditions                               *)
Shapes ==
  {("name" :> PyStr("A")) @@ ("action" :> Cool),
   ("name" :> PyStr("A")) @@ ("action" :> Cool) @@ Guarded,
   ("name" :> PyStr("B")) @@ ("conditions" :> PyList(<<>>)),
   ("name" :> PyStr("B")) @@ Guarded}

Priorities == {<<>>} \cup {"priority" :> PyInt(p) : p \in (0 - 1)..MaxPriority}

Rules == {n @@ p : n \in Shapes, p \in Priorities}

RuleLists == UNION {[1..n -> Rules] : n \in 0..MaxRules}

Readings ==
  {[temperature |-> PyFloat(40), humidity |-> PyFloat(100)],
   [temperature |-> PyFloat(60), humidity |-> PyFloat(100)],
   [temperature |-> PyFloat(60), humidity |-> PyFloat(160)]}

----------------------------------------------------------------------------
(* The calls *)

NoResult == Return(PyNone)

NoCond == PyList(<<>>)

(* result = run_rule_engine(rules, facts), line 204 *)
Determine ==
  /\ pc = "ready"
  /\ result' = run_rule_engine(rules, facts)
  /\ pc' = "done"
  /\ UNCHANGED <<rules, facts, cond>>

Init ==
  /\ rules \in RuleLists
  /\ facts \in Readings
  /\ cond = NoCond
  /\ pc = "ready"
  /\ result = NoResult

Next == Determine

Spec == Init /\ [][Next]_vars

----------------------------------------------------------------------------
(* Rule content that departs from the shape of section 3 *)

ContentPriorities == {<<>>} \cup {"priority" :> v : v \in {PyInt(1), PyStr("high"), PyNone}}

ContentConditions ==
  {<<>>} \cup {"conditions" :> v :
                 v \in {PyNone, PyInt(5), PyList(<<PyInt(5)>>), PyList(<<Hot, Dry>>)}}

ContentRules == {p @@ c : p \in ContentPriorities, c \in ContentConditions}

ContentRuleLists == UNION {[1..n -> ContentRules] : n \in 0..MaxRules}

InitContent ==
  /\ rules \in ContentRuleLists
  /\ facts \in Readings
  /\ cond = NoCond
  /\ pc = "ready"
  /\ result = NoResult

SpecContent == InitContent /\ [][Next]_vars

----------------------------------------------------------------------------
(* Calls of evaluate_condition on its own *)

MaxArity == 4

Fields ==
  {PyStr("temperature"), PyStr("occupancy"), PyStr("windows_open"), PyStr("pressure"),
   PyInt(5), PyList(<<>>)}

Comparisons == {"==", "!=", ">=", "<=", ">", "<"}

Operators == {PyStr(o) : o \in Comparisons} \cup {PyStr("=>"), PyNone}

Values ==
  {PyInt(1), PyInt(9), PyInt(30), PyFloat(60), PyBool(TRUE), PyBool(FALSE),
   PyStr("OCCUPIED"), PyStr("occupied"), PyStr("9"), PyStr("30.0"), PyStr("true"), PyNone}

Triples == {<<fld, o, v>> : fld \in Fields, o \in Operators, v \in Values}

(* the first n elements of a triple, padded with zeros beyond the third *)
Sized(tr, n) == [i \in 1..n |-> IF i <= 3 THEN tr[i] ELSE PyInt(0)]

(* cond: List[Any] *)
Conds == {PyList(Sized(tr, n)) : tr \in Triples, n \in 0..MaxArity}

CondFacts ==
  {[temperature |-> x, occupancy |-> o, windows_open |-> PyBool(w)] :
     x \in {PyInt(9), PyInt(30), PyFloat(45), PyFloat(60)},
     o \in {PyStr("OCCUPIED"), PyStr("EMPTY")},
     w \in BOOLEAN}

(* evaluate_condition(cond, facts) *)
Evaluate ==
  /\ pc = "ready"
  /\ result' = evaluate_condition(cond, facts)
  /\ pc' = "done"
  /\ UNCHANGED <<rules, facts, cond>>

InitCondition ==
  /\ rules = <<>>
  /\ facts \in CondFacts
  /\ cond \in Conds
  /\ pc = "ready"
  /\ result = NoResult

NextCondition == Evaluate

SpecCondition == InitCondition /\ [][NextCondition]_vars

----------------------------------------------------------------------------
(* The default rules and the facts of the form *)

(* lines 16-116; the arrow of the source's texts is written -> *)
DEFAULT_RULES ==
  << [name |-> PyStr("Windows open"), priority |-> PyInt(100),
      conditions |-> PyList(<<
        PyList(<<PyStr("windows_open"), PyStr("=="), PyBool(TRUE)>>) >>),
      action |-> [mode |-> PyStr("OFF"), fan_speed |-> PyStr("LOW"), setpoint |-> PyNone,
                  reason |-> PyStr("Windows are open -> turn AC off")]],
     [name |-> PyStr("Too cold"), priority |-> PyInt(95),
      conditions |-> PyList(<<
        PyList(<<PyStr("temperature"), PyStr("<="), PyInt(22)>>) >>),
      action |-> [mode |-> PyStr("OFF"), fan_speed |-> PyStr("LOW"), setpoint |-> PyNone,
                  reason |-> PyStr("Already too cold -> turn AC off")]],
     [name |-> PyStr("No one home -> eco mode"), priority |-> PyInt(90),
      conditions |-> PyList(<<
        PyList(<<PyStr("occupancy"), PyStr("=="), PyStr("EMPTY")>>),
        PyList(<<PyStr("temperature"), PyStr(">="), PyInt(24)>>) >>),
      action |-> [mode |-> PyStr("ECO"), fan_speed |-> PyStr("LOW"), setpoint |-> PyInt(27),
                  reason |-> PyStr("Home empty -> eco mode to save energy")]],
     [name |-> PyStr("Hot & humid (occupied)"), priority |-> PyInt(80),
      conditions |-> PyList(<<
        PyList(<<PyStr("occupancy"), PyStr("=="), PyStr("OCCUPIED")>>),
        PyList(<<PyStr("temperature"), PyStr(">="), PyInt(30)>>),
        PyList(<<PyStr("humidity"), PyStr(">="), PyInt(70)>>) >>),
      action |-> [mode |-> PyStr("COOL"), fan_speed |-> PyStr("HIGH"), setpoint |-> PyInt(23),
                  reason |-> PyStr("Hot and very humid -> strong cooling")]],
     [name |-> PyStr("Night sleep mode"), priority |-> PyInt(75),
      conditions |-> PyList(<<
        PyList(<<PyStr("occupancy"), PyStr("=="), PyStr("OCCUPIED")>>),
        PyList(<<PyStr("time_of_day"), PyStr("=="), PyStr("NIGHT")>>),
        PyList(<<PyStr("temperature"), PyStr(">="), PyInt(26)>>) >>),
      action |-> [mode |-> PyStr("SLEEP"), fan_speed |-> PyStr("LOW"), setpoint |-> PyInt(26),
                  reason |-> PyStr("Night time -> sleep mode for comfort")]],
     [name |-> PyStr("Hot (occupied)"), priority |-> PyInt(70),
      conditions |-> PyList(<<
        PyList(<<PyStr("occupancy"), PyStr("=="), PyStr("OCCUPIED")>>),
        PyList(<<PyStr("temperature"), PyStr(">="), PyInt(28)>>) >>),
      action |-> [mode |-> PyStr("COOL"), fan_speed |-> PyStr("MEDIUM"), setpoint |-> PyInt(24),
                  reason |-> PyStr("High temperature -> cooling")]],
     [name |-> PyStr("Slightly warm (occupied)"), priority |-> PyInt(60),
      conditions |-> PyList(<<
        PyList(<<PyStr("occupancy"), PyStr("=="), PyStr("OCCUPIED")>>),
        PyList(<<PyStr("temperature"), PyStr(">="), PyInt(26)>>),
        PyList(<<PyStr("temperature"), PyStr("<"), PyInt(28)>>) >>),
      action |-> [mode |-> PyStr("COOL"), fan_speed |-> PyStr("LOW"), setpoint |-> PyInt(25),
                  reason |-> PyStr("Slightly warm -> gentle cooling")]] >>

(* the widgets of lines 138-144; temperatures in halves, step 0.5 *)
MinTemperature == 15

MaxTemperature == 38

MinHumidity == 20

MaxHumidity == 95

TemperatureInputs == {PyFloat(h) : h \in (2 * MinTemperature)..(2 * MaxTemperature)}

HumidityInputs == {PyInt(n) : n \in MinHumidity..MaxHumidity}

OccupancyInputs == {PyStr("OCCUPIED"), PyStr("EMPTY")}

TimeOfDayInputs == {PyStr("MORNING"), PyStr("AFTERNOON"), PyStr("EVENING"), PyStr("NIGHT")}

(* the facts dictionary, lines 147-153 *)
BuildFacts(temperature, humidity, occupancy, time_of_day, windows_open) ==
  [temperature |-> PyFloat(float(temperature)),
   humidity |-> PyFloat(float(humidity)),
   occupancy |-> occupancy,
   time_of_day |-> time_of_day,
   windows_open |-> PyBool(windows_open)]

FormFacts ==
  {BuildFacts(x, h, o, d, w) :
     x \in TemperatureInputs, h \in HumidityInputs, o \in OccupancyInputs,
     d \in TimeOfDayInputs, w \in BOOLEAN}

InitDefault ==
  /\ rules = DEFAULT_RULES
  /\ facts \in FormFacts
  /\ cond = NoCond
  /\ pc = "ready"
  /\ result = NoResult

SpecDefault == InitDefault /\ [][Next]_vars

----------------------------------------------------------------------------
(* Properties of run_rule_engine over rule lists in the shape of section 3 *)

(* every condition of rule r is true under f *)
holds(r, f) ==
  LET cs == Get(r, "conditions", PyList(<<>>)).e
  IN \A i \in 1..Len(cs) : evaluate_condition(cs[i], f) = Return(TRUE)

(* the rank of a rule: its integer priority, 0 without a "priority" key *)
rank(r) == IF "priority" \in DOMAIN r THEN r["priority"].n ELSE 0

matching == {i \in 1..Len(rules) : holds(rules[i], facts)}

top == {i \in matching : \A j \in matching : rank(rules[j]) <= rank(rules[i])}

earliest == CHOOSE i \in top : \A j \in top : i <= j

returned == pc = "done" /\ ~result.raised

decided == returned /\ result.value # PyNone

(* C1: a returned decision is that of a rule whose conditions all hold     *)
(* under the facts, and no rule whose conditions all hold has a strictly   *)
(* higher priority, whatever the order of the list; a rule without a       *)
(* "priority" key ranks as 0.                                              *)
C1_HighestPriorityWins ==
  decided =>
    \E i \in matching :
      /\ result.value = Decision(rules[i])
      /\ \A j \in matching : rank(rules[j]) <= rank(rules[i])

(* a rule without "priority" comes later in the list than a matching rule  *)
(* of priority -1 and is the one returned                                  *)
C1_Witness ==
  /\ decided
  /\ \E i, j \in matching :
       /\ i < j
       /\ rank(rules[i]) = 0 - 1
       /\ "priority" \notin DOMAIN rules[j]
       /\ j \in top
       /\ result.value = Decision(rules[j])
       /\ result.value.priority = PyInt(0)

(* C2: when several matching rules share the highest priority, the one     *)
(* that is earliest in the original list is returned.                      *)
C2_StableTieBreak ==
  (pc = "done" /\ top # {}) => result = Return(Decision(rules[earliest]))

(* two different rules tie for the highest priority; the earlier is returned *)
C2_Witness ==
  /\ decided
  /\ \E i, j \in top :
       /\ i < j
       /\ Decision(rules[i]) # Decision(rules[j])
       /\ result.value = Decision(rules[i])

(* C3: "no decision" is returned exactly when no rule has all its          *)
(* conditions true; a rule with an empty or missing condition list always  *)
(* matches; the empty rule list gives "no decision".                       *)
C3_NoDecisionIffNoMatch ==
  pc = "done" =>
    /\ ~result.raised
    /\ (result.value = PyNone) <=> (matching = {})
    /\ rules = <<>> => result.value = PyNone
    /\ (\E i \in 1..Len(rules) : Get(rules[i], "conditions", PyList(<<>>)) = PyList(<<>>))
         => result.value # PyNone

(* the highest-priority rule does not match, a rule without conditions     *)
(* below it does and is returned                                           *)
C3_Witness ==
  /\ decided
  /\ \E i, j \in 1..Len(rules) :
       /\ rank(rules[i]) > rank(rules[j])
       /\ i \notin matching
       /\ "conditions" \notin DOMAIN rules[j]
       /\ result.value = Decision(rules[j])

----------------------------------------------------------------------------
(* Properties of rule content outside the shape of section 3 *)

(* C6: run_rule_engine never raises because of rule content: for rules     *)
(* with missing keys, a non-comparable "priority", a "conditions" value    *)
(* that is null or not a sequence, or a condition that is not a sequence,  *)
(* it returns a decision or "no decision".                                 *)
C6_NeverRaises == pc = "done" => ~result.raised

----------------------------------------------------------------------------
(* Properties of evaluate_condition *)

threeElements == cond.t = "list" /\ Len(cond.e) = 3

fieldKnown == cond.e[1].t = "str" /\ cond.e[1].s \in DOMAIN facts

operatorKnown == cond.e[2].t = "str" /\ cond.e[2].s \in Comparisons

wellFormed == threeElements /\ fieldKnown /\ operatorKnown

(* C4: evaluate_condition returns false and raises nothing for a condition *)
(* that does not have exactly 3 elements, for a 3-element condition whose  *)
(* field is not a key of facts, and for a 3-element condition whose        *)
(* operator is not one of the six comparisons.                             *)
C4_MalformedIsFalse ==
  (pc = "done" /\ ~wellFormed) => result = Return(FALSE)

(* The comparison the claim describes, stated through a three-way order:   *)
(* -1, 0 or 1 as the left operand is below, equal to or above the right.   *)
Folded(s) == [i \in 1..Len(s) |-> IF s[i] >= 97 /\ s[i] <= 122 THEN s[i] - 32 ELSE s[i]]

Shorter(a, b) == IF Len(a) < Len(b) THEN Len(a) ELSE Len(b)

TextOrder(a, b) ==
  LET differ == {i \in 1..Shorter(a, b) : a[i] # b[i]}
  IN IF differ = {}
     THEN (IF Len(a) < Len(b) THEN 0 - 1 ELSE IF Len(a) > Len(b) THEN 1 ELSE 0)
     ELSE LET k == CHOOSE i \in differ : \A j \in differ : i <= j
          IN IF a[k] < b[k] THEN 0 - 1 ELSE 1

(* twice the numeric value; a bool counts as 1 or 0 *)
Doubled(v) == IF v.t = "int" THEN 2 * v.n ELSE IF v.t = "float" THEN v.h ELSE IF v.b THEN 2 ELSE 0

NumberOrder(a, b) == IF Doubled(a) < Doubled(b) THEN 0 - 1 ELSE IF Doubled(a) > Doubled(b) THEN 1 ELSE 0

Satisfies(o, order) ==
  CASE o = "==" -> order = 0
  [] o = "!=" -> order # 0
  [] o = ">=" -> order >= 0
  [] o = "<=" -> order <= 0
  [] o = ">" -> order > 0
  [] o = "<" -> order < 0

Expected(numeric, actual, o, value) ==
  IF actual.t \in numeric /\ value.t \in numeric
  THEN Satisfies(o, NumberOrder(actual, value))
  ELSE Satisfies(o, TextOrder(Folded(str(actual)), Folded(str(value))))

actualOf == facts[cond.e[1].s]

(* C5 as stated: int and float operands are compared as numbers, every     *)
(* other pair, booleans included, through the uppercased string forms.     *)
C5_NumbersElseText ==
  (pc = "done" /\ wellFormed) =>
    result = Return(Expected({"int", "float"}, actualOf, cond.e[2].s, cond.e[3]))

(* C5 amended: for a well-formed condition whose field is in facts, when   *)
(* value and facts[field] are both numeric, a boolean counting as the      *)
(* number 1 or 0, they are compared as numbers; in every other case the    *)
(* uppercased string forms are compared, == and != case-insensitively and  *)
(* >=, <=, >, < in lexicographic order.                                    *)
C5_NumbersAndBoolsElseText ==
  (pc = "done" /\ wellFormed) =>
    result = Return(Expected({"int", "float", "bool"}, actualOf, cond.e[2].s, cond.e[3]))

(* the float 30.0 is below the string "9" as text although 30 > 9 *)
C5_Witness ==
  /\ pc = "done"
  /\ cond = PyList(<<PyStr("temperature"), PyStr("<"), PyStr("9")>>)
  /\ facts.temperature = PyFloat(60)
  /\ result = Return(TRUE)

----------------------------------------------------------------------------
(* Properties of the default rules on the facts of the form *)

selected(name, p) ==
  /\ returned
  /\ result.value # PyNone
  /\ result.value.rule_name = PyStr(name)
  /\ result.value.priority = PyInt(p)

windowsOpen == facts.windows_open = PyBool(TRUE)

occupied == facts.occupancy = PyStr("OCCUPIED")

(* the temperature and humidity facts, in halves *)
temperature2 == facts.temperature.h

humidity2 == facts.humidity.h

usesOccupancy(r) == \E i \in 1..Len(r.conditions.e) : r.conditions.e[i].e[1] = PyStr("occupancy")

(* C7: with windows_open true, "Windows open" (priority 100) is returned   *)
(* for every temperature, humidity, occupancy and time of day.             *)
C7_WindowsOpen == (pc = "done" /\ windowsOpen) => selected("Windows open", 100)

(* windows open at 15.0 degrees, where "Too cold" matches as well *)
C7_Witness ==
  /\ pc = "done" /\ windowsOpen /\ temperature2 = 30
  /\ holds(DEFAULT_RULES[2], facts)
  /\ selected("Windows open", 100)

(* C8: with windows_open false and temperature at most 22, "Too cold"      *)
(* (priority 95) is returned, never a rule with an occupancy condition.    *)
C8_TooCold ==
  (pc = "done" /\ ~windowsOpen /\ temperature2 <= 44) =>
    /\ selected("Too cold", 95)
    /\ \A i \in 1..Len(DEFAULT_RULES) :
         result.value = Decision(DEFAULT_RULES[i]) => ~usesOccupancy(DEFAULT_RULES[i])

(* temperature 22.0 exactly, occupied *)
C8_Witness ==
  /\ pc = "done" /\ ~windowsOpen /\ temperature2 = 44 /\ occupied
  /\ selected("Too cold", 95)

(* C9: windows closed, occupied, temperature at least 30 and humidity at   *)
(* least 70 give "Hot & humid (occupied)" (priority 80) at every time of   *)
(* day, although "Hot (occupied)" and "Night sleep mode" match as well.    *)
C9_HotHumid ==
  (pc = "done" /\ ~windowsOpen /\ occupied /\ temperature2 >= 60 /\ humidity2 >= 140)
    => selected("Hot & humid (occupied)", 80)

(* 31 degrees, 75 percent, at night: rules 5 and 6 match too *)
C9_Witness ==
  /\ pc = "done" /\ ~windowsOpen /\ occupied /\ temperature2 = 62 /\ humidity2 = 150
  /\ facts.time_of_day = PyStr("NIGHT")
  /\ holds(DEFAULT_RULES[5], facts) /\ holds(DEFAULT_RULES[6], facts)
  /\ selected("Hot & humid (occupied)", 80)

(* C10: on the facts of the form "no decision" is returned exactly when    *)
(* windows_open is false, temperature is above 22, and occupancy is EMPTY  *)
(* with temperature below 24 or OCCUPIED with temperature below 26.        *)
C10_NoDecisionBand ==
  pc = "done" =>
    /\ ~result.raised
    /\ (result.value = PyNone) <=>
         (/\ ~windowsOpen
          /\ temperature2 > 44
          /\ \/ (facts.occupancy = PyStr("EMPTY") /\ temperature2 < 48)
             \/ (occupied /\ temperature2 < 52))

(* 25.5 degrees, occupied, windows closed: nothing is selected *)
C10_Witness ==
  /\ pc = "done" /\ ~windowsOpen /\ occupied /\ temperature2 = 51
  /\ result = Return(PyNone)

====
